---- MODULE Spec2Model ----
(***************************************************************************)
(* Job orchestration core of backend/app.py (MetasploitReconBackend):     *)
(* the job registry and its state machine, the per-client rate limiter,    *)
(* the target authorizer and the tool-execution pipeline.                  *)
(*                                                                         *)
(* Scheduling.  Every route handler is a coroutine without an await: it    *)
(* is one atomic step.  execute_job is scheduled by create_job as a        *)
(* background task and mutates the registry only inside its                *)
(* `with self.job_lock` blocks; each such block is one atomic step and the *)
(* handlers of other requests may run between two of them (before the run  *)
(* starts, while a tool invocation is awaited, and between blocks).  These *)
(* are the interleavings job_lock permits, and the ones the await of line  *)
(* 406 is written for; Spec, SpecRunner and the specifications of single   *)
(* components take them all.  Three specifications look closer:            *)
(*   SpecLoop  - the event loop as uvicorn.run drives it: subprocess.run   *)
(*               (line 484) keeps the only thread, so a run that has      *)
(*               started is never suspended and nothing else runs until   *)
(*               it has ended.  Its behaviours are among those of the     *)
(*               specifications above.                                    *)
(*   SpecLock  - every assignment inside a lock block is a step and the    *)
(*               handlers and runs are threads that only job_lock keeps   *)
(*               apart.                                                   *)
(*   SpecCalls - every statement of check_rate_limit is a step, with      *)
(*               requests that arrive while a call is being run.          *)
(*                                                                         *)
(* response is the answer of the handler that ran in the step just taken,  *)
(* with the request it answers; a step of a run or of the clock leaves no  *)
(* answer.                                                                 *)
(*                                                                         *)
(* Text that the code inspects character by character (the scan target)    *)
(* is a sequence of one-character strings; names that are only compared    *)
(* or looked up (tool names, statuses, messages) are strings.              *)
(***************************************************************************)
EXTENDS Integers, Sequences, FiniteSets, TLC

(* ----------------------------- bounds --------------------------------- *)

\* Largest number of jobs the registry holds in the model.
MaxJobs == 1
\* Largest clock value (seconds since construction).
MaxTime == 61

\* Largest number of jobs in the registry where listing is looked at alone.
MaxListed == 3

\* Amounts of time that pass between two steps.
TickSteps == {61}
\* The same where the rate limiter is looked at alone: requests arrive half
\* a window apart as well as a full window apart.
WindowSteps == {30, 61}

(* ------------------------- program constants --------------------------- *)

\* self.max_requests_per_minute
max_requests_per_minute == 10
\* the sliding window of check_rate_limit: minute_ago = now - 60
RateWindow == 60
\* config.get('threads', 10) and config.get('timeout', 5)
DefaultThreads == 10
DefaultTimeout == 5

\* client_ip = "127.0.0.1": the one client identity create_job ever uses
client_ip == "127.0.0.1"

allowed_patterns ==
    << <<"1", "2", "7", ".", "0", ".", "0", ".", "1">>,
       <<"l", "o", "c", "a", "l", "h", "o", "s", "t">>,
       <<"1", "9", "2", ".", "1", "6", "8", ".">>,
       <<"1", "0", ".">>,
       <<"1", "7", "2", ".", "1", "6", ".">>,
       <<"1", "7", "2", ".", "1", "7", ".">>,
       <<"1", "7", "2", ".", "1", "8", ".">>,
       <<"1", "7", "2", ".", "1", "9", ".">>,
       <<"1", "7", "2", ".", "2", "0", ".">>,
       <<"1", "7", "2", ".", "2", "1", ".">>,
       <<"1", "7", "2", ".", "2", "2", ".">>,
       <<"1", "7", "2", ".", "2", "3", ".">>,
       <<"1", "7", "2", ".", "2", "4", ".">>,
       <<"1", "7", "2", ".", "2", "5", ".">>,
       <<"1", "7", "2", ".", "2", "6", ".">>,
       <<"1", "7", "2", ".", "2", "7", ".">>,
       <<"1", "7", "2", ".", "2", "8", ".">>,
       <<"1", "7", "2", ".", "2", "9", ".">>,
       <<"1", "7", "2", ".", "3", "0", ".">>,
       <<"1", "7", "2", ".", "3", "1", ".">> >>

\* module_mapping of execute_metasploit_tool
module_mapping ==
    [n \in {"ping-sweep", "tcp-syn-scan", "udp-scan", "service-version-scan",
            "os-fingerprint", "smb-enum", "snmp-enum", "dns-enum", "web-crawl",
            "web-app-scan", "cve-lookup"} |->
        CASE n = "ping-sweep" -> "auxiliary/scanner/discovery/udp_sweep"
          [] n = "tcp-syn-scan" -> "auxiliary/scanner/portscan/syn"
          [] n = "udp-scan" -> "auxiliary/scanner/discovery/udp_sweep"
          [] n = "service-version-scan" -> "auxiliary/scanner/portscan/tcp"
          [] n = "os-fingerprint" -> "auxiliary/scanner/portscan/tcp"
          [] n = "smb-enum" -> "auxiliary/scanner/smb/smb_enumshares"
          [] n = "snmp-enum" -> "auxiliary/scanner/snmp/snmp_enum"
          [] n = "dns-enum" -> "auxiliary/gather/dns_enum"
          [] n = "web-crawl" -> "auxiliary/scanner/http/crawl"
          [] n = "web-app-scan" -> "auxiliary/scanner/http/http_version"
          [] n = "cve-lookup" -> "auxiliary/scanner/portscan/tcp"]

(* ------------------------------ inputs -------------------------------- *)

T_private == <<"1", "0", ".", "0", ".", "0", ".", "5">>
T_public == <<"8", ".", "8", ".", "8", ".", "8">>
T_padded == <<" ", "1", "0", ".", "0", ".", "0", ".", "5", " ">>
T_blank == <<" ", " ">>

\* Target strings of the requests.
RequestTargets == {T_private, T_public, T_padded, T_blank}

\* The dict of a tool's options: the empty one, and one that sets threads.
EmptyDict == [k \in {} |-> 0]
NoOptions == EmptyDict
ConfigThreads == [threads |-> 4]

\* A ToolConfig object of a request: a pydantic BaseModel, not a dataclass.
ToolConfig(name, config) == [type |-> "ToolConfig", name |-> name, config |-> config]

\* Tools lists of the requests.
RequestTools ==
    { << >>,
      << ToolConfig("ping-sweep", NoOptions) >> }

\* Beginnings of the targets the authorizer is asked about, besides the
\* allowed prefixes themselves: strings that miss a prefix by a character, by
\* a number, by case or by position.
OtherHeads ==
    { << >>,
      <<" ">>,
      <<"8", ".", "8", ".">>,
      <<"e", "v", "i", "l", ".", "e", "x", "a", "m", "p", "l", "e", ".">>,
      <<"1", "1", "0", ".">>,
      <<"1", "1", ".">>,
      <<"1">>,
      <<"1", "7", "2", ".", "1", "5", ".">>,
      <<"1", "7", "2", ".", "3", "2", ".">>,
      <<"1", "7", "2", ".", "1", ".">>,
      <<"1", "7", "2", ".", "1", "6", "0", ".">>,
      <<"1", "7", "2", ".", "1", "6">>,
      <<"1", "9", "2", ".", "1", "6", "9", ".">>,
      <<"1", "9", "2", ".", "1", "6", "8">>,
      <<"1", "2", "7", ".", "0", ".", "0", ".">>,
      <<"l", "o", "c", "a", "l", "h", "o", "s">>,
      <<"L", "o", "c", "a", "l", "h", "o", "s", "t">>,
      <<" ", "1", "0", ".">>,
      <<"0", "1", "0", ".">> }

\* Their continuations.
TargetTails ==
    { << >>,
      <<"1", ".", "1">>,
      <<"0", ".", "0", ".", "5">>,
      <<"8", ".", "8">>,
      <<"c", "o", "m">> }

(* ------------------------------ helpers -------------------------------- *)

\* Optional[...] fields: << >> is None, <<v>> is the value v.
None == << >>
Some(v) == << v >>

Min(S) == CHOOSE x \in S : \A y \in S : x <= y
Max(S) == CHOOSE x \in S : \A y \in S : x >= y

\* str.startswith
StartsWith(s, p) == Len(p) <= Len(s) /\ SubSeq(s, 1, Len(p)) = p

\* str.strip
Strip(s) ==
    LET keep == {k \in DOMAIN s : s[k] \notin {" ", "\t", "\n", "\r"}}
    IN  IF keep = {} THEN << >> ELSE SubSeq(s, Min(keep), Max(keep))

\* dict.get(key, default)
Get(d, key, default) == IF key \in DOMAIN d THEN d[key] ELSE default

(* ------------------------------- state --------------------------------- *)

VARIABLES
    now,          \* the wall clock read by time.time() and datetime.utcnow()
    rate_limits,  \* self.rate_limits: client -> list of request times
    jobs,         \* self.jobs: the registry, in insertion order; a job's id is its position
    runner,       \* the execute_job run scheduled for each job: where it stands
    files,        \* the resource files written under the job directories
    launched,     \* the msfconsole processes launched: <<job, tool index>>
    response,     \* what the handler that ran in this step returned to its caller
    job_lock,     \* self.job_lock: the threads that hold it
    frames        \* per thread: the call it is in the middle of, where statements are steps

vars == <<now, rate_limits, jobs, runner, files, launched, response, job_lock, frames>>

\* No handler returned in this step.
NoResponse == [op |-> "none"]

\* The threads that serve requests, and the thread of the run of each job
\* (named by the job's number).  Where a specification takes a handler or a
\* lock block as one step, no thread is ever in the middle of a call.
HandlerThreads == {-1, -2}
RunThreads == 1 .. (MaxJobs + 1)
Threads == HandlerThreads \cup RunThreads
Idle == [op |-> "idle"]
NoFrames == [t \in Threads |-> Idle]

(* --------------------------- RateLimiter ------------------------------- *)

\* RecentRequests without the pruning of lines 341-344.
RecentRequests_NoPrune(rl, client, t) ==
    IF client \in DOMAIN rl THEN rl[client] ELSE << >>

\* Lines 337-344: the client's list, created if missing, without the requests
\* that are a minute old or older.
RecentRequests(rl, client, t) ==
    LET old == IF client \in DOMAIN rl THEN rl[client] ELSE << >>
        Recent(req_time) == req_time > t - RateWindow
    IN  SelectSeq(old, Recent)

\* Line 347: the limit is exceeded.
LimitExceeded(rl, client, t) ==
    Len(RecentRequests(rl, client, t)) >= max_requests_per_minute

\* The value check_rate_limit returns.
check_rate_limit(rl, client, t) == ~LimitExceeded(rl, client, t)

\* self.rate_limits after check_rate_limit(client) ran at time t.
RateLimitsAfter(rl, client, t) ==
    LET recent == RecentRequests(rl, client, t)
        list == IF LimitExceeded(rl, client, t) THEN recent ELSE Append(recent, t)
    IN  [c \in DOMAIN rl \cup {client} |-> IF c = client THEN list ELSE rl[c]]

(* --------------- check_rate_limit, statement by statement -------------- *)

\* A request has arrived: the coroutine of create_job waits for the event
\* loop to run it; its first statement that touches state is line 138.
Queued == [op |-> "check_rate_limit", pc |-> "queued"]

\* A POST /api/jobs request arrives on connection c.
Arrive(c) ==
    /\ frames[c] = Idle
    /\ frames' = [frames EXCEPT ![c] = Queued]
    /\ response' = NoResponse
    /\ UNCHANGED <<rate_limits, jobs, runner, files, launched, now, job_lock>>

\* Handlers that run on threads of their own (def instead of async def): a
\* call runs whatever the other calls are doing.
LoopRuns_OnThreads(c) == TRUE

\* create_job is a coroutine without an await and check_rate_limit a plain
\* function: once the event loop runs the call it runs it to its return, and
\* it runs no other call before (lines 129-142, 332-352).
LoopRuns(c) ==
    \A d \in HandlerThreads \ {c} : frames[d] = Idle \/ frames[d] = Queued

\* self.rate_limits[client_ip] = list
SetList(rl, client, list) ==
    [k \in DOMAIN rl \cup {client} |-> IF k = client THEN list ELSE rl[k]]

\* What check_rate_limit returned to the call of connection c.
Returned(c, f, ret) ==
    [op |-> "check_rate_limit", arg |-> c, ret |-> ret, t |-> f.t, snap |-> f.snap]

\* The call of connection c executes its next statement: lines 334-335 (the
\* clock is read; snap is the table as the call found it), 337-338, 341-344,
\* 347-348, 351-352.
Statement(c) ==
    /\ frames[c] # Idle
    /\ LoopRuns(c)
    /\ LET f == frames[c]
           Goto(pc) == frames' = [frames EXCEPT ![c].pc = pc]
       IN  CASE f.pc = "queued" ->
                  /\ frames' = [frames EXCEPT ![c] =
                                   [op |-> f.op, pc |-> "L337", t |-> now, snap |-> rate_limits]]
                  /\ response' = NoResponse
                  /\ UNCHANGED rate_limits
             [] f.pc = "L337" ->
                  /\ rate_limits' = IF client_ip \in DOMAIN rate_limits
                                     THEN rate_limits
                                     ELSE SetList(rate_limits, client_ip, << >>)
                  /\ Goto("L341")
                  /\ response' = NoResponse
             [] f.pc = "L341" ->
                  /\ rate_limits' = SetList(rate_limits, client_ip,
                                        SelectSeq(rate_limits[client_ip],
                                                  LAMBDA req_time : req_time > f.t - RateWindow))
                  /\ Goto("L347")
                  /\ response' = NoResponse
             [] f.pc = "L347" ->
                  IF Len(rate_limits[client_ip]) >= max_requests_per_minute
                  THEN /\ frames' = [frames EXCEPT ![c] = Idle]
                       /\ response' = Returned(c, f, FALSE)
                       /\ UNCHANGED rate_limits
                  ELSE /\ Goto("L351")
                       /\ response' = NoResponse
                       /\ UNCHANGED rate_limits
             [] f.pc = "L351" ->
                  /\ rate_limits' = SetList(rate_limits, client_ip,
                                        Append(rate_limits[client_ip], f.t))
                  /\ frames' = [frames EXCEPT ![c] = Idle]
                  /\ response' = Returned(c, f, TRUE)
    /\ UNCHANGED <<jobs, runner, files, launched, now, job_lock>>

(* -------------------------- TargetAuthorizer --------------------------- *)

\* validate_target_authorization with `pattern in target` for startswith.
validate_target_authorization_Contains(target) ==
    \E k \in DOMAIN allowed_patterns : \E at \in 0 .. Len(target) :
        StartsWith(SubSeq(target, at + 1, Len(target)), allowed_patterns[k])

\* Lines 354-384.
validate_target_authorization(target) ==
    \E k \in DOMAIN allowed_patterns : StartsWith(target, allowed_patterns[k])

\* A call of validate_target_authorization(target): it returns its answer
\* and reads and writes no field of the backend.
authorize(target) ==
    /\ response' = [op |-> "validate_target_authorization", arg |-> target,
                    ret |-> validate_target_authorization(target)]
    /\ UNCHANGED <<job_lock, frames, now, rate_limits, jobs, runner, files, launched>>

(* --------------------------- request parsing --------------------------- *)

\* ReconRequest.validate_target: TRUE when the validator raises ValueError.
TargetRejected(v) == v = << >> \/ Strip(v) = << >>

\* ReconRequest.validate_target: the value the validator returns.
validate_target(v) == Strip(v)

\* dataclasses.asdict raises TypeError for an object that is no dataclass
\* instance; of the classes of this program only Job is a dataclass.
AsdictRaises(obj) == obj.type # "Job"

\* dataclasses.asdict of a dataclass instance: the dict of its fields.
asdict(obj) == [name |-> obj.name, config |-> obj.config]

\* Line 157: TRUE when the list comprehension raises.
ToolsConversionRaises(tools) == \E k \in DOMAIN tools : AsdictRaises(tools[k])

(* ------------------------------- create -------------------------------- *)

\* Lines 153-161: the Job object create_job builds.
NewJob(job_id, target, profile_name, tools, t) ==
    [ id           |-> job_id,
      target       |-> target,
      profile_name |-> profile_name,
      tools        |-> [k \in DOMAIN tools |-> asdict(tools[k])],
      status       |-> "pending",
      created_at   |-> t,
      started_at   |-> None,
      completed_at |-> None,
      results      |-> << >>,
      error        |-> None,
      user         |-> "default" ]

\* background_tasks.add_task(self.execute_job, job_id): a run that has not
\* started.  pc is the place of the run in execute_job, i the position in
\* job.tools of the loop, ret the result the awaited invocation returned and
\* e the exception raised inside the try block, if any.
ScheduledRun == [pc |-> "scheduled", i |-> 1, ret |-> None, e |-> None]

\* uuid.uuid4(): an id no job has; ids are numbered in creation order.
FreshId == Len(jobs) + 1

\* A handler's outcome: the request it served (its arguments), the HTTP status
\* and the body (or the detail of the HTTPException).
Reply(op, arg, code, body) == [op |-> op, arg |-> arg, code |-> code, body |-> body]

\* create_job with the authorization check before the rate limit.
create_job_AuthorizationFirst(raw_target, tools) ==
    LET Answer(code, body) ==
            Reply("create_job", [target |-> raw_target, tools |-> tools], code, body)
    IN
    /\ UNCHANGED <<job_lock, frames, now, files, launched>>
    /\ IF TargetRejected(raw_target)
       THEN /\ response' = Answer(422, "Target cannot be empty")
            /\ UNCHANGED <<rate_limits, jobs, runner>>
       ELSE LET target == validate_target(raw_target) IN
            IF ~validate_target_authorization(target)
            THEN /\ response' = Answer(403, "Target not authorized for scanning")
                 /\ UNCHANGED <<rate_limits, jobs, runner>>
            ELSE /\ rate_limits' = RateLimitsAfter(rate_limits, client_ip, now)
                 /\ IF ~check_rate_limit(rate_limits, client_ip, now)
                    THEN /\ response' = Answer(429, "Rate limit exceeded")
                         /\ UNCHANGED <<jobs, runner>>
                    ELSE IF ToolsConversionRaises(tools)
                    THEN /\ response' = Answer(500, "TypeError")
                         /\ UNCHANGED <<jobs, runner>>
                    ELSE /\ Len(jobs) < MaxJobs
                         /\ jobs' = Append(jobs, NewJob(FreshId, target, "Unnamed Scan", tools, now))
                         /\ runner' = Append(runner, ScheduledRun)
                         /\ response' = Answer(200, FreshId)

\* create_job that takes back the recorded time when it answers 403.
create_job_RefundsRejected(raw_target, tools) ==
    LET Answer(code, body) ==
            Reply("create_job", [target |-> raw_target, tools |-> tools], code, body)
    IN
    /\ UNCHANGED <<job_lock, frames, now, files, launched>>
    /\ IF TargetRejected(raw_target)
       THEN /\ response' = Answer(422, "Target cannot be empty")
            /\ UNCHANGED <<rate_limits, jobs, runner>>
       ELSE LET target == validate_target(raw_target) IN
            IF ~check_rate_limit(rate_limits, client_ip, now)
            THEN /\ rate_limits' = RateLimitsAfter(rate_limits, client_ip, now)
                 /\ response' = Answer(429, "Rate limit exceeded")
                 /\ UNCHANGED <<jobs, runner>>
            ELSE IF ~validate_target_authorization(target)
            THEN /\ rate_limits' = [c \in DOMAIN rate_limits \cup {client_ip} |->
                                       IF c = client_ip
                                       THEN RecentRequests(rate_limits, client_ip, now)
                                       ELSE rate_limits[c]]
                 /\ response' = Answer(403, "Target not authorized for scanning")
                 /\ UNCHANGED <<jobs, runner>>
            ELSE /\ rate_limits' = RateLimitsAfter(rate_limits, client_ip, now)
                 /\ IF ToolsConversionRaises(tools)
                    THEN /\ response' = Answer(500, "TypeError")
                         /\ UNCHANGED <<jobs, runner>>
                    ELSE /\ Len(jobs) < MaxJobs
                         /\ jobs' = Append(jobs, NewJob(FreshId, target, "Unnamed Scan", tools, now))
                         /\ runner' = Append(runner, ScheduledRun)
                         /\ response' = Answer(200, FreshId)

\* POST /api/jobs.  The request body is parsed first (ReconRequest), then the
\* handler runs: rate limit, authorization, job construction, registration.
create_job(raw_target, tools) ==
    LET Answer(code, body) ==
            Reply("create_job", [target |-> raw_target, tools |-> tools], code, body)
    IN
    /\ UNCHANGED <<job_lock, frames, now, files, launched>>
    /\ IF TargetRejected(raw_target)
       THEN /\ response' = Answer(422, "Target cannot be empty")
            /\ UNCHANGED <<rate_limits, jobs, runner>>
       ELSE LET target == validate_target(raw_target) IN
            /\ rate_limits' = RateLimitsAfter(rate_limits, client_ip, now)
            /\ IF ~check_rate_limit(rate_limits, client_ip, now)
               THEN /\ response' = Answer(429, "Rate limit exceeded")
                    /\ UNCHANGED <<jobs, runner>>
               ELSE IF ~validate_target_authorization(target)
               THEN /\ response' = Answer(403, "Target not authorized for scanning")
                    /\ UNCHANGED <<jobs, runner>>
               ELSE IF ToolsConversionRaises(tools)
               THEN /\ response' = Answer(500, "TypeError")
                    /\ UNCHANGED <<jobs, runner>>
               ELSE /\ Len(jobs) < MaxJobs
                    /\ jobs' = Append(jobs, NewJob(FreshId, target, "Unnamed Scan", tools, now))
                    /\ runner' = Append(runner, ScheduledRun)
                    /\ response' = Answer(200, FreshId)

(* ------------------------------- clock --------------------------------- *)

Tick(d) ==
    /\ now + d <= MaxTime
    /\ now' = now + d
    /\ response' = NoResponse
    /\ UNCHANGED <<job_lock, frames, rate_limits, jobs, runner, files, launched>>

(* ----------------------------- ToolInvoker ----------------------------- *)

\* What the operating system and the external engine may do to one invocation.
WriteOutcomes == {"written", "write_fails"}
LaunchOutcomes == {"launched", "launch_fails"}
ProcessOutcomes == {"exit_0", "exit_1", "deadline", "read_fails"}

\* Line 455.
UnknownToolResult(tool_name) == [error |-> <<"Unknown tool: ", tool_name>>]

\* Lines 497-502.
ProcessResult(returncode, output) ==
    [success |-> returncode = 0, output |-> output, stderr |-> "", return_code |-> returncode]

\* Lines 505-509.
TimeoutResult == [success |-> FALSE, error |-> "Tool execution timed out", output |-> ""]

\* Lines 511-515.
ExceptionResult(message) == [success |-> FALSE, error |-> message, output |-> ""]

\* Lines 462-469: the commands of the resource file.
Commands(module, target, config) ==
    [ use     |-> module,
      RHOSTS  |-> target,
      THREADS |-> Get(config, "threads", DefaultThreads),
      TIMEOUT |-> Get(config, "timeout", DefaultTimeout) ]

\* Lines 472-473: open(resource_file, 'w') replaces the file of that name.
WriteFile(fs, path, content) ==
    {f \in fs : f.path # path} \cup {[path |-> path, content |-> content]}

\* Lines 484-515: what execute_metasploit_tool returns once the process it
\* launched has ended in the given way.
ResultOfProcess(outcome) ==
    CASE outcome = "exit_0"     -> ProcessResult(0, "scan output")
      [] outcome = "exit_1"     -> ProcessResult(1, "")
      [] outcome = "deadline"   -> TimeoutResult
      [] outcome = "read_fails" -> ExceptionResult("[Errno 13] Permission denied")

(* ------------------------------ JobRunner ------------------------------ *)

\* str(e) of the OSError raised by job_dir.mkdir (line 398) and by the write
\* of the resource file (lines 472-473).
MkdirError == "[Errno 2] No such file or directory"
WriteError == "[Errno 28] No space left on device"

SetJob(j, job) == [jobs EXCEPT ![j] = job]
SetRun(j, run) == [runner EXCEPT ![j] = run]

\* Lines 388-393.  A scheduled run always finds its job: nothing removes a job.
StartJob(j) ==
    /\ j \in DOMAIN jobs
    /\ runner[j].pc = "scheduled"
    /\ jobs' = SetJob(j, [jobs[j] EXCEPT !.status = "running", !.started_at = Some(now)])
    /\ runner' = SetRun(j, [runner[j] EXCEPT !.pc = "mkdir"])
    /\ response' = NoResponse
    /\ UNCHANGED <<job_lock, frames, now, rate_limits, files, launched>>

\* Lines 397-398: job_dir.mkdir(exist_ok=True) succeeds or raises OSError.
MakeJobDir(j, ok) ==
    /\ j \in DOMAIN jobs
    /\ runner[j].pc = "mkdir"
    /\ runner' = SetRun(j, IF ok THEN [runner[j] EXCEPT !.pc = "loop"]
                           ELSE [runner[j] EXCEPT !.pc = "except",
                                    !.e = Some(MkdirError)])
    /\ response' = NoResponse
    /\ UNCHANGED <<job_lock, frames, now, rate_limits, jobs, files, launched>>

\* InvokeTool with a test of the status before each tool: a run that stops
\* at the next tool once the job is not Running any more.
InvokeTool_UnlessCancelled(j, write, launch) ==
    /\ j \in DOMAIN jobs
    /\ runner[j].pc = "loop"
    /\ jobs[j].status = "running"
    /\ runner[j].i <= Len(jobs[j].tools)
    /\ LET tool_config == jobs[j].tools[runner[j].i]
           tool_name == tool_config.name
       IN  IF tool_name \notin DOMAIN module_mapping
           THEN /\ runner' = SetRun(j, [runner[j] EXCEPT !.pc = "store",
                                           !.ret = Some(UnknownToolResult(tool_name))])
                /\ UNCHANGED <<files, launched>>
           ELSE IF write = "write_fails"
           THEN /\ runner' = SetRun(j, [runner[j] EXCEPT !.pc = "except",
                                           !.e = Some(WriteError)])
                /\ UNCHANGED <<files, launched>>
           ELSE /\ files' = WriteFile(files, <<j, tool_name>>,
                                Commands(module_mapping[tool_name], jobs[j].target,
                                         tool_config.config))
                /\ IF launch = "launch_fails"
                   THEN /\ runner' = SetRun(j, [runner[j] EXCEPT !.pc = "store",
                                !.ret = Some(ExceptionResult("[Errno 2] No such file or directory"))])
                        /\ UNCHANGED launched
                   ELSE /\ runner' = SetRun(j, [runner[j] EXCEPT !.pc = "await"])
                        /\ launched' = launched \cup {<<j, runner[j].i>>}
    /\ response' = NoResponse
    /\ UNCHANGED <<job_lock, frames, now, rate_limits, jobs>>

\* Lines 401-411 and 435-489: the next tool of the list is invoked.  An
\* unknown name returns at once; otherwise the resource file is written
\* (outside any try: a failure propagates to execute_job) and the engine is
\* launched (inside the try: a failure to launch becomes a result).
InvokeTool(j, write, launch) ==
    /\ j \in DOMAIN jobs
    /\ runner[j].pc = "loop"
    /\ runner[j].i <= Len(jobs[j].tools)
    /\ LET tool_config == jobs[j].tools[runner[j].i]
           tool_name == tool_config.name
       IN  IF tool_name \notin DOMAIN module_mapping
           THEN /\ runner' = SetRun(j, [runner[j] EXCEPT !.pc = "store",
                                           !.ret = Some(UnknownToolResult(tool_name))])
                /\ UNCHANGED <<files, launched>>
           ELSE IF write = "write_fails"
           THEN /\ runner' = SetRun(j, [runner[j] EXCEPT !.pc = "except",
                                           !.e = Some(WriteError)])
                /\ UNCHANGED <<files, launched>>
           ELSE /\ files' = WriteFile(files, <<j, tool_name>>,
                                Commands(module_mapping[tool_name], jobs[j].target,
                                         tool_config.config))
                /\ IF launch = "launch_fails"
                   THEN /\ runner' = SetRun(j, [runner[j] EXCEPT !.pc = "store",
                                !.ret = Some(ExceptionResult("[Errno 2] No such file or directory"))])
                        /\ UNCHANGED launched
                   ELSE /\ runner' = SetRun(j, [runner[j] EXCEPT !.pc = "await"])
                        /\ launched' = launched \cup {<<j, runner[j].i>>}
    /\ response' = NoResponse
    /\ UNCHANGED <<job_lock, frames, now, rate_limits, jobs>>

\* Lines 484-515: the launched process ends, or its deadline passes.
ToolReturns(j, outcome) ==
    /\ j \in DOMAIN jobs
    /\ runner[j].pc = "await"
    /\ runner' = SetRun(j, [runner[j] EXCEPT !.pc = "store",
                               !.ret = Some(ResultOfProcess(outcome))])
    /\ response' = NoResponse
    /\ UNCHANGED <<job_lock, frames, now, rate_limits, jobs, files, launched>>

\* StoreResult with the name of the job's first tool in every entry.
StoreResult_FirstToolName(j) ==
    /\ j \in DOMAIN jobs
    /\ runner[j].pc = "store"
    /\ jobs' = SetJob(j, [jobs[j] EXCEPT !.results =
                    Append(@, [tool      |-> jobs[j].tools[1].name,
                               timestamp |-> now,
                               result    |-> runner[j].ret[1]])])
    /\ runner' = SetRun(j, [runner[j] EXCEPT !.pc = "loop", !.i = @ + 1, !.ret = None])
    /\ response' = NoResponse
    /\ UNCHANGED <<job_lock, frames, now, rate_limits, files, launched>>

\* Lines 414-421: the result is appended; the loop goes on to the next tool.
StoreResult(j) ==
    /\ j \in DOMAIN jobs
    /\ runner[j].pc = "store"
    /\ jobs' = SetJob(j, [jobs[j] EXCEPT !.results =
                    Append(@, [tool      |-> jobs[j].tools[runner[j].i].name,
                               timestamp |-> now,
                               result    |-> runner[j].ret[1]])])
    /\ runner' = SetRun(j, [runner[j] EXCEPT !.pc = "loop", !.i = @ + 1, !.ret = None])
    /\ response' = NoResponse
    /\ UNCHANGED <<job_lock, frames, now, rate_limits, files, launched>>

\* CompleteJob that marks the job failed when a tool reported success=false.
CompleteJob_FailedIfToolFailed(j) ==
    /\ j \in DOMAIN jobs
    /\ runner[j].pc = "loop"
    /\ runner[j].i > Len(jobs[j].tools)
    /\ LET bad == \E k \in DOMAIN jobs[j].results :
                      /\ "success" \in DOMAIN jobs[j].results[k].result
                      /\ ~jobs[j].results[k].result.success
       IN  jobs' = SetJob(j, [jobs[j] EXCEPT
                                 !.status = IF bad THEN "failed" ELSE "completed",
                                 !.completed_at = Some(now)])
    /\ runner' = SetRun(j, [runner[j] EXCEPT !.pc = "done"])
    /\ response' = NoResponse
    /\ UNCHANGED <<job_lock, frames, now, rate_limits, files, launched>>

\* Lines 424-426: the loop has ended.
CompleteJob(j) ==
    /\ j \in DOMAIN jobs
    /\ runner[j].pc = "loop"
    /\ runner[j].i > Len(jobs[j].tools)
    /\ jobs' = SetJob(j, [jobs[j] EXCEPT !.status = "completed", !.completed_at = Some(now)])
    /\ runner' = SetRun(j, [runner[j] EXCEPT !.pc = "done"])
    /\ response' = NoResponse
    /\ UNCHANGED <<job_lock, frames, now, rate_limits, files, launched>>

\* FailJob that records the error and leaves the status as it is.
FailJob_KeepsStatus(j) ==
    /\ j \in DOMAIN jobs
    /\ runner[j].pc = "except"
    /\ jobs' = SetJob(j, [jobs[j] EXCEPT !.error = runner[j].e])
    /\ runner' = SetRun(j, [runner[j] EXCEPT !.pc = "done"])
    /\ response' = NoResponse
    /\ UNCHANGED <<job_lock, frames, now, rate_limits, files, launched>>

\* FailJob that marks the job completed.
FailJob_MarksCompleted(j) ==
    /\ j \in DOMAIN jobs
    /\ runner[j].pc = "except"
    /\ jobs' = SetJob(j, [jobs[j] EXCEPT !.status = "completed", !.completed_at = Some(now),
                                         !.error = runner[j].e])
    /\ runner' = SetRun(j, [runner[j] EXCEPT !.pc = "done"])
    /\ response' = NoResponse
    /\ UNCHANGED <<job_lock, frames, now, rate_limits, files, launched>>

\* FailJob without line 433.
FailJob_NoError(j) ==
    /\ j \in DOMAIN jobs
    /\ runner[j].pc = "except"
    /\ jobs' = SetJob(j, [jobs[j] EXCEPT !.status = "failed", !.completed_at = Some(now)])
    /\ runner' = SetRun(j, [runner[j] EXCEPT !.pc = "done"])
    /\ response' = NoResponse
    /\ UNCHANGED <<job_lock, frames, now, rate_limits, files, launched>>

\* Lines 428-433: the handler of an exception raised in the try block.
FailJob(j) ==
    /\ j \in DOMAIN jobs
    /\ runner[j].pc = "except"
    /\ jobs' = SetJob(j, [jobs[j] EXCEPT !.status = "failed", !.completed_at = Some(now),
                                         !.error = runner[j].e])
    /\ runner' = SetRun(j, [runner[j] EXCEPT !.pc = "done"])
    /\ response' = NoResponse
    /\ UNCHANGED <<job_lock, frames, now, rate_limits, files, launched>>

(* ------------------------------- queries ------------------------------- *)

\* The JobStatus built at lines 183-193 and 223-233.
JobStatus(job) ==
    [ id            |-> job.id,
      target        |-> job.target,
      profile_name  |-> job.profile_name,
      status        |-> job.status,
      created_at    |-> job.created_at,
      started_at    |-> job.started_at,
      completed_at  |-> job.completed_at,
      error         |-> job.error,
      results_count |-> Len(job.results) ]

\* Lines 178-193: what get_job_status answers when the registry is js.
StatusAnswer(js, job_id) ==
    IF job_id \notin DOMAIN js
    THEN Reply("get_job_status", job_id, 404, "Job not found")
    ELSE Reply("get_job_status", job_id, 200, JobStatus(js[job_id]))

\* GET /api/jobs/{job_id}
get_job_status(job_id) ==
    /\ response' = StatusAnswer(jobs, job_id)
    /\ UNCHANGED <<job_lock, frames, now, rate_limits, jobs, runner, files, launched>>

\* Lines 198-208: what get_job_results answers when the registry is js.
ResultsAnswer(js, job_id) ==
    IF job_id \notin DOMAIN js
    THEN Reply("get_job_results", job_id, 404, "Job not found")
    ELSE Reply("get_job_results", job_id, 200,
               [ job_id  |-> job_id,
                 status  |-> js[job_id].status,
                 results |-> js[job_id].results,
                 error   |-> js[job_id].error ])

\* GET /api/jobs/{job_id}/results
get_job_results(job_id) ==
    /\ response' = ResultsAnswer(jobs, job_id)
    /\ UNCHANGED <<job_lock, frames, now, rate_limits, jobs, runner, files, launched>>

\* Line 215: list.sort(key=created_at, reverse=True) is stable: jobs created
\* at the same time keep their registry order.  Position of job p in the
\* sorted list.
SortedPosition(js, p) ==
    1 + Cardinality({q \in DOMAIN js :
            \/ js[q].created_at > js[p].created_at
            \/ js[q].created_at = js[p].created_at /\ q < p})

\* SortedJobs without reverse=True: oldest first.
SortedJobs_Ascending(js) ==
    [k \in DOMAIN js |->
        js[CHOOSE p \in DOMAIN js :
              1 + Cardinality({q \in DOMAIN js :
                      \/ js[q].created_at < js[p].created_at
                      \/ js[q].created_at = js[p].created_at /\ q < p}) = k]]

\* Lines 214-215.
SortedJobs(js) ==
    [k \in DOMAIN js |-> js[CHOOSE p \in DOMAIN js : SortedPosition(js, p) = k]]

\* job_list[start:end] for start, end >= 0.
Slice(s, start, end) == SubSeq(s, start + 1, IF end < Len(s) THEN end ELSE Len(s))

\* Lines 213-238: what list_jobs answers when the registry is js.
ListAnswer(js, limit, offset) ==
    LET job_list == SortedJobs(js)
        jobs_page == Slice(job_list, offset, offset + limit)
    IN  Reply("list_jobs", [limit |-> limit, offset |-> offset], 200,
              [ jobs   |-> [k \in DOMAIN jobs_page |-> JobStatus(jobs_page[k])],
                total  |-> Len(job_list),
                offset |-> offset,
                limit  |-> limit ])

\* GET /api/jobs
list_jobs(limit, offset) ==
    /\ response' = ListAnswer(jobs, limit, offset)
    /\ UNCHANGED <<job_lock, frames, now, rate_limits, jobs, runner, files, launched>>

(* ------------------------------- cancel -------------------------------- *)

\* cancel_job without line 250.
cancel_job_NoCompletedAt(job_id) ==
    /\ IF job_id \notin DOMAIN jobs
       THEN /\ response' = Reply("cancel_job", job_id, 404, "Job not found")
            /\ UNCHANGED jobs
       ELSE IF jobs[job_id].status = "running"
       THEN /\ jobs' = SetJob(job_id, [jobs[job_id] EXCEPT !.status = "cancelled"])
            /\ response' = Reply("cancel_job", job_id, 200, "Job cancelled successfully")
       ELSE /\ response' = Reply("cancel_job", job_id, 400, "Job cannot be cancelled in current status")
            /\ UNCHANGED jobs
    /\ UNCHANGED <<job_lock, frames, now, rate_limits, runner, files, launched>>

\* cancel_job that also accepts a job that has not started.
cancel_job_AlsoPending(job_id) ==
    /\ IF job_id \notin DOMAIN jobs
       THEN /\ response' = Reply("cancel_job", job_id, 404, "Job not found")
            /\ UNCHANGED jobs
       ELSE IF jobs[job_id].status \in {"pending", "running"}
       THEN /\ jobs' = SetJob(job_id, [jobs[job_id] EXCEPT !.status = "cancelled",
                                                          !.completed_at = Some(now)])
            /\ response' = Reply("cancel_job", job_id, 200, "Job cancelled successfully")
       ELSE /\ response' = Reply("cancel_job", job_id, 400, "Job cannot be cancelled in current status")
            /\ UNCHANGED jobs
    /\ UNCHANGED <<job_lock, frames, now, rate_limits, runner, files, launched>>

\* DELETE /api/jobs/{job_id}
cancel_job(job_id) ==
    /\ IF job_id \notin DOMAIN jobs
       THEN /\ response' = Reply("cancel_job", job_id, 404, "Job not found")
            /\ UNCHANGED jobs
       ELSE IF jobs[job_id].status = "running"
       THEN /\ jobs' = SetJob(job_id, [jobs[job_id] EXCEPT !.status = "cancelled",
                                                          !.completed_at = Some(now)])
            /\ response' = Reply("cancel_job", job_id, 200, "Job cancelled successfully")
       ELSE /\ response' = Reply("cancel_job", job_id, 400, "Job cannot be cancelled in current status")
            /\ UNCHANGED jobs
    /\ UNCHANGED <<job_lock, frames, now, rate_limits, runner, files, launched>>

(* ------------------- the lock blocks, statement by statement ----------- *)

\* `with self.job_lock`, entry: threading.Lock.acquire without the wait.
Acquire_NoWait(t) == job_lock' = job_lock \cup {t}

\* `with self.job_lock`, entry: threading.Lock.acquire returns once no thread
\* holds the lock.
Acquire(t) == job_lock = {} /\ job_lock' = {t}

\* A thread in a lock block: the operation, its argument, the registry as it
\* was on entry and the number of assignments of the block made so far.
InBlock(op, arg) == [op |-> op, arg |-> arg, snap |-> jobs, done |-> 0]

\* The thread enters the lock block of the operation.
Enter(t, op, arg) ==
    /\ frames[t] = Idle
    /\ Acquire(t)
    /\ frames' = [frames EXCEPT ![t] = InBlock(op, arg)]
    /\ response' = NoResponse
    /\ UNCHANGED <<rate_limits, jobs, runner, files, launched, now>>

\* Line 248: cancel_job found the job and it is Running.
CancelAccepted(f) == f.arg \in DOMAIN f.snap /\ f.snap[f.arg].status = "running"

\* The number of assignments to the registry and to job fields in the block:
\* lines 391-392, 415-421, 425-426, 431-433, 249-250, 164; the queries
\* only read.
NumWrites(f) ==
    CASE f.op = "StartJob" -> 2
      [] f.op = "StoreResult" -> 1
      [] f.op = "CompleteJob" -> 2
      [] f.op = "FailJob" -> 3
      [] f.op = "cancel_job" -> IF CancelAccepted(f) THEN 2 ELSE 0
      [] f.op = "create_job" -> 1
      [] OTHER -> 0

\* job.<field> = value
Put(js, j, field, value) == [js EXCEPT ![j] = [@ EXCEPT ![field] = value]]

\* The registry js after the k-th assignment of the block.
AfterWrite(f, k, js) ==
    LET j == f.arg IN
    CASE f.op = "StartJob" /\ k = 1 -> Put(js, j, "status", "running")
      [] f.op = "StartJob" /\ k = 2 -> Put(js, j, "started_at", Some(now))
      [] f.op = "StoreResult" ->
            Put(js, j, "results",
                Append(js[j].results, [tool      |-> js[j].tools[runner[j].i].name,
                                       timestamp |-> now,
                                       result    |-> runner[j].ret[1]]))
      [] f.op = "CompleteJob" /\ k = 1 -> Put(js, j, "status", "completed")
      [] f.op = "CompleteJob" /\ k = 2 -> Put(js, j, "completed_at", Some(now))
      [] f.op = "FailJob" /\ k = 1 -> Put(js, j, "status", "failed")
      [] f.op = "FailJob" /\ k = 2 -> Put(js, j, "completed_at", Some(now))
      [] f.op = "FailJob" /\ k = 3 -> Put(js, j, "error", runner[j].e)
      [] f.op = "cancel_job" /\ k = 1 -> Put(js, j, "status", "cancelled")
      [] f.op = "cancel_job" /\ k = 2 -> Put(js, j, "completed_at", Some(now))
      [] f.op = "create_job" ->
            Append(js, NewJob(Len(js) + 1, validate_target(f.arg), "Unnamed Scan", << >>, now))

\* The thread makes the next assignment of its block.
Write(t) ==
    /\ frames[t] # Idle
    /\ frames[t].done < NumWrites(frames[t])
    /\ jobs' = AfterWrite(frames[t], frames[t].done + 1, jobs)
    /\ frames' = [frames EXCEPT ![t].done = @ + 1]
    /\ response' = NoResponse
    /\ UNCHANGED <<rate_limits, runner, files, launched, now, job_lock>>

\* What the handler returns after its block (the queries read the registry
\* inside it); the blocks of a run return nothing to a client.
Answer(f) ==
    CASE f.op = "get_job_status" -> StatusAnswer(jobs, f.arg)
      [] f.op = "get_job_results" -> ResultsAnswer(jobs, f.arg)
      [] f.op = "list_jobs" -> ListAnswer(jobs, f.arg[2], f.arg[1])
      [] f.op = "cancel_job" ->
            IF f.arg \notin DOMAIN f.snap
            THEN Reply("cancel_job", f.arg, 404, "Job not found")
            ELSE IF CancelAccepted(f)
            THEN Reply("cancel_job", f.arg, 200, "Job cancelled successfully")
            ELSE Reply("cancel_job", f.arg, 400, "Job cannot be cancelled in current status")
      [] f.op = "create_job" ->
            Reply("create_job", [target |-> f.arg, tools |-> << >>], 200, Len(jobs))
      [] OTHER -> NoResponse

\* Where the run of job j stands after its block.
RunAfter(f) ==
    LET j == f.arg IN
    CASE f.op = "StartJob" -> SetRun(j, [runner[j] EXCEPT !.pc = "mkdir"])
      [] f.op = "StoreResult" ->
            SetRun(j, [runner[j] EXCEPT !.pc = "loop", !.i = @ + 1, !.ret = None])
      [] f.op \in {"CompleteJob", "FailJob"} -> SetRun(j, [runner[j] EXCEPT !.pc = "done"])
      [] f.op = "create_job" -> Append(runner, ScheduledRun)
      [] OTHER -> runner

\* The thread leaves its block: the lock is released, the handler returns,
\* the run goes on, create_job schedules the run of the new job (line 167).
Leave(t) ==
    /\ frames[t] # Idle
    /\ frames[t].done = NumWrites(frames[t])
    /\ job_lock' = job_lock \ {t}
    /\ frames' = [frames EXCEPT ![t] = Idle]
    /\ response' = Answer(frames[t])
    /\ runner' = RunAfter(frames[t])
    /\ UNCHANGED <<rate_limits, jobs, files, launched, now>>

\* The block the run of job j is about to enter, "" when it is not at one.
BlockOfRun(j) ==
    CASE runner[j].pc = "scheduled" -> "StartJob"
      [] runner[j].pc = "store" -> "StoreResult"
      [] runner[j].pc = "loop" /\ runner[j].i > Len(jobs[j].tools) -> "CompleteJob"
      [] runner[j].pc = "except" -> "FailJob"
      [] OTHER -> ""

\* The run of job j enters its next block.
EnterRun(j) ==
    /\ j \in DOMAIN runner
    /\ BlockOfRun(j) # ""
    /\ Enter(j, BlockOfRun(j), j)

\* The run of job j takes a step that is in no block: mkdir, the invocation
\* of the next tool, the end of its process.
RunOutsideBlocks(j) ==
    /\ j \in DOMAIN runner
    /\ \/ \E ok \in BOOLEAN : MakeJobDir(j, ok)
       \/ InvokeTool(j, "written", "launched")
       \/ ToolReturns(j, "exit_0")

\* A handler thread takes a request and enters the block of its handler.
\* create_job is past its admission checks, for a request without tools.
EnterHandler(t) ==
    \/ \E id \in RunThreads : Enter(t, "get_job_status", id)
    \/ \E id \in RunThreads : Enter(t, "get_job_results", id)
    \/ \E id \in RunThreads : Enter(t, "cancel_job", id)
    \/ Enter(t, "list_jobs", <<0, 1>>)
    \/ Len(jobs) <= MaxJobs /\ Enter(t, "create_job", T_padded)

(* ---------------------------- specification ---------------------------- *)

\* Job ids of the requests: those of the registry and one no job can have.
RequestIds == 1 .. (MaxJobs + 1)

\* (offset, limit) of the list requests.
ListRequests == {<<0, 1>>, <<1, 2>>}

\* __init__: an empty registry, no recorded request, an empty workspace.
Init ==
    /\ now = 0
    /\ rate_limits = EmptyDict
    /\ jobs = << >>
    /\ runner = << >>
    /\ files = {}
    /\ launched = {}
    /\ response = NoResponse
    /\ job_lock = {}
    /\ frames = NoFrames

\* The requests of the clients, and the passing of time.
Requests ==
    \/ \E d \in TickSteps : Tick(d)
    \/ \E id \in RequestIds : get_job_status(id)
    \/ \E id \in RequestIds : get_job_results(id)
    \/ \E r \in ListRequests : list_jobs(r[2], r[1])
    \/ \E id \in RequestIds : cancel_job(id)

\* POST /api/jobs requests.
Admission ==
    \E t \in RequestTargets, tools \in RequestTools : create_job(t, tools)

\* The steps of execute_job outside its loop over the tools.
RunJob ==
    \/ \E j \in 1 .. MaxJobs : StartJob(j)
    \/ \E j \in 1 .. MaxJobs, ok \in BOOLEAN : MakeJobDir(j, ok)
    \/ \E j \in 1 .. MaxJobs : CompleteJob(j)
    \/ \E j \in 1 .. MaxJobs : FailJob(j)

\* The steps of the loop of execute_job, one iteration per tool.
RunTool ==
    \/ \E j \in 1 .. MaxJobs, w \in WriteOutcomes, l \in LaunchOutcomes : InvokeTool(j, w, l)
    \/ \E j \in 1 .. MaxJobs, o \in ProcessOutcomes : ToolReturns(j, o)
    \/ \E j \in 1 .. MaxJobs : StoreResult(j)

\* The program from its construction.  create_job registers a job only when
\* the request names no tool (line 157 raises otherwise), so no run ever
\* enters the loop over the tools: RunTool is left out because it cannot fire.
Next == Requests \/ Admission \/ RunJob

Spec == Init /\ [][Next]_vars

\* The tools of a registered job, as the dicts line 157 is meant to build.
Tool(name, config) == [name |-> name, config |-> config]

\* The tools lists of the jobs execute_job is run on.
JobTools ==
    { << Tool("ping-sweep", NoOptions) >>,
      << Tool("frobnicate", NoOptions), Tool("ping-sweep", ConfigThreads) >>,
      << Tool("ping-sweep", NoOptions), Tool("tcp-syn-scan", NoOptions) >> }

\* execute_job on a job that names tools: the registry holds one Pending job
\* of any of the tools lists, admitted at time 0, and its run is scheduled.
InitRunner ==
    /\ now = 0
    /\ rate_limits = [c \in {client_ip} |-> << 0 >>]
    /\ \E tools \in JobTools :
         jobs = << [NewJob(1, T_private, "Unnamed Scan", << >>, 0) EXCEPT !.tools = tools] >>
    /\ runner = << ScheduledRun >>
    /\ files = {}
    /\ launched = {}
    /\ response = NoResponse
    /\ job_lock = {}
    /\ frames = NoFrames

NextRunner == Requests \/ RunJob \/ RunTool

SpecRunner == InitRunner /\ [][NextRunner]_vars

\* Any step of the run of job j.
RunStep(j) ==
    \/ StartJob(j)
    \/ \E ok \in BOOLEAN : MakeJobDir(j, ok)
    \/ \E w \in WriteOutcomes, l \in LaunchOutcomes : InvokeTool(j, w, l)
    \/ \E o \in ProcessOutcomes : ToolReturns(j, o)
    \/ StoreResult(j)
    \/ CompleteJob(j)
    \/ FailJob(j)

\* SpecRunner where every scheduled run is run: the event loop does not leave
\* a task that can take a step waiting forever, and a launched process ends
\* or is stopped at its deadline (subprocess.run with timeout=300).
SpecRunnerFair == SpecRunner /\ \A j \in 1 .. MaxJobs : WF_vars(RunStep(j))

\* The event loop of uvicorn.run (lines 523-529): one thread runs every
\* handler and every background task.  execute_job gives the thread back only
\* where an await suspends, and it has none that does: the coroutine awaited
\* at line 406 contains no await, and subprocess.run (line 484) keeps the
\* thread until the process has ended or 300 seconds have passed.  So the
\* loop is free only when no run is between its first and its last step.
EventLoopIdle == \A j \in DOMAIN runner : runner[j].pc \in {"scheduled", "done"}

\* The loop serves a request.
ServeRequest ==
    /\ EventLoopIdle
    /\ \/ \E id \in 1 .. 3 : get_job_status(id)
       \/ \E id \in 1 .. 3 : get_job_results(id)
       \/ \E id \in 1 .. 3 : cancel_job(id)
       \/ \E r \in ListRequests : list_jobs(r[2], r[1])

\* The loop takes up the background task of job j.
TakeUpRun(j) == EventLoopIdle /\ StartJob(j)

\* The run that holds the thread goes on.
ContinueRun(j) ==
    /\ j \in DOMAIN runner
    /\ runner[j].pc # "scheduled"
    /\ RunStep(j)

\* Two Pending jobs that name tools, their runs scheduled.
InitTwoJobs ==
    /\ now = 0
    /\ rate_limits = [c \in {client_ip} |-> << 0, 0 >>]
    /\ \E t1 \in JobTools, t2 \in JobTools :
         jobs = << [NewJob(1, T_private, "Unnamed Scan", << >>, 0) EXCEPT !.tools = t1],
                   [NewJob(2, T_private, "Unnamed Scan", << >>, 0) EXCEPT !.tools = t2] >>
    /\ runner = << ScheduledRun, ScheduledRun >>
    /\ files = {}
    /\ launched = {}
    /\ response = NoResponse
    /\ job_lock = {}
    /\ frames = NoFrames

NextLoop ==
    \/ ServeRequest
    \/ \E j \in 1 .. 2 : TakeUpRun(j)
    \/ \E j \in 1 .. 2 : ContinueRun(j)

\* Two jobs as the event loop runs them.
SpecLoop == InitTwoJobs /\ [][NextLoop]_vars

\* The admission path alone under the finer clock: requests of every kind
\* arrive at times 0, 30, 60 and 61, and no run is started.
NextLimiter ==
    \/ \E d \in WindowSteps : Tick(d)
    \/ Admission

SpecLimiter == Init /\ [][NextLimiter]_vars

\* Times at which the jobs of a listed registry were created.
CreateTimes == {0, 1, 2}

\* Registries to list: up to MaxListed jobs that create_job registered for
\* requests without tools, in the order of their creation (two may share a
\* creation time), none of them started yet.
InitList ==
    \E n \in 0 .. MaxListed : \E ts \in [1 .. n -> CreateTimes] :
        /\ \A k \in 1 .. n : \A m \in 1 .. n : k < m => ts[k] <= ts[m]
        /\ now = Max(CreateTimes)
        /\ rate_limits = IF n = 0 THEN EmptyDict ELSE [c \in {client_ip} |-> ts]
        /\ jobs = [k \in 1 .. n |-> NewJob(k, T_private, "Unnamed Scan", << >>, ts[k])]
        /\ runner = [k \in 1 .. n |-> ScheduledRun]
        /\ files = {}
        /\ launched = {}
        /\ response = NoResponse
        /\ job_lock = {}
        /\ frames = NoFrames

\* List requests of every offset and limit up to the size of the registry,
\* while runs start and running jobs are cancelled.
NextList ==
    \/ \E offset \in 0 .. MaxListed, limit \in 0 .. MaxListed : list_jobs(limit, offset)
    \/ \E j \in 1 .. MaxListed : StartJob(j)
    \/ \E j \in 1 .. MaxListed : cancel_job(j)

SpecList == InitList /\ [][NextList]_vars

\* The targets the authorizer is asked about: every allowed prefix and every
\* other beginning, followed by every continuation.
AuthorizerTargets ==
    {h \o t : h \in {allowed_patterns[k] : k \in DOMAIN allowed_patterns} \cup OtherHeads,
              t \in TargetTails}

\* The authorizer alone: it is asked about every target, before and after
\* requests were admitted, rejected and registered.
NextAuthorizer ==
    \/ \E target \in AuthorizerTargets : authorize(target)
    \/ \E tools \in RequestTools : create_job(T_private, tools)

SpecAuthorizer == Init /\ [][NextAuthorizer]_vars

\* The admission path for requests that name no tool: such a request is
\* answered 422, 429 or 403, or it registers a job; so while the registry is
\* empty, every recorded time is that of a request answered 403.
NextNoTools ==
    \/ \E d \in WindowSteps : Tick(d)
    \/ \E t \in RequestTargets : create_job(t, << >>)

SpecNoTools == Init /\ [][NextNoTools]_vars

\* The registry under threads: every handler and every run is a thread, every
\* assignment of a lock block is a step, and nothing but job_lock keeps the
\* threads apart.  One job that names a tool is registered, its run scheduled.
NextLock ==
    \/ \E t \in HandlerThreads : EnterHandler(t)
    \/ \E j \in RunThreads : EnterRun(j)
    \/ \E t \in Threads : Write(t)
    \/ \E t \in Threads : Leave(t)
    \/ \E j \in RunThreads : RunOutsideBlocks(j)

SpecLock == InitRunner /\ [][NextLock]_vars

\* The rate limiter under overlapping requests: requests arrive on two
\* connections at any time, also while a call is being run, and the calls
\* are run statement by statement.
NextCalls ==
    \/ \E d \in TickSteps : Tick(d)
    \/ \E c \in HandlerThreads : Arrive(c)
    \/ \E c \in HandlerThreads : Statement(c)

SpecCalls == Init /\ [][NextCalls]_vars

(* ------------------------------- claims -------------------------------- *)

\* The edges of the job state machine of the specification.
AllowedTransitions ==
    {<<"pending", "running">>, <<"running", "completed">>,
     <<"running", "failed">>, <<"running", "cancelled">>}

C2_ResultsFollowTools ==
    \A j \in DOMAIN jobs :
        /\ Len(jobs[j].results) <= Len(jobs[j].tools)
        /\ \A k \in DOMAIN jobs[j].results :
              /\ jobs[j].results[k].tool = jobs[j].tools[k].name
              /\ (jobs[j].tools[k].name \notin DOMAIN module_mapping)
                    <=> (jobs[j].results[k].result = UnknownToolResult(jobs[j].tools[k].name))

\* C2 witness: a job with two different tools has both results stored.
C2_Witness ==
    \E j \in DOMAIN jobs :
        /\ Len(jobs[j].results) = 2
        /\ jobs[j].tools[1].name # jobs[j].tools[2].name

\* C3: a cancel request for an unknown id answers 404; for a job that is
\* Running it answers 200, sets the status to Cancelled and completed_at to
\* the time of the call, and changes nothing else; for a job in any other
\* status it answers 400.  The two error answers change no job.
C3_CancelOnlyWhenRunning ==
    [][response'.op = "cancel_job" =>
          LET id == response'.arg IN
          IF id \notin DOMAIN jobs
          THEN response'.code = 404 /\ jobs' = jobs
          ELSE IF jobs[id].status = "running"
          THEN /\ response'.code = 200
               /\ jobs' = [jobs EXCEPT ![id] =
                              [@ EXCEPT !.status = "cancelled", !.completed_at = Some(now)]]
          ELSE response'.code = 400 /\ jobs' = jobs]_vars

\* C3 witness: a cancel request was accepted and the job is Cancelled with
\* completed_at set.
C3_Witness ==
    /\ response.op = "cancel_job"
    /\ response.code = 200
    /\ jobs[response.arg].status = "cancelled"
    /\ jobs[response.arg].completed_at # None

\* C4: a run that raised no exception ends with the job Completed and one
\* result per tool, whatever the results report; a job is Failed only when
\* mkdir or the write of a resource file raised, never because of a result.
C4_ReportedFailuresDoNotFailJob ==
    \A j \in DOMAIN jobs :
        /\ jobs[j].status = "failed" => runner[j].e \in {Some(MkdirError), Some(WriteError)}
        /\ (runner[j].pc = "done" /\ runner[j].e = None) =>
              /\ jobs[j].status = "completed"
              /\ Len(jobs[j].results) = Len(jobs[j].tools)

\* C4 witness: a finished job with tools [A, B] where A reported
\* success=false and B success=true is Completed with two results.
C4_Witness ==
    \E j \in DOMAIN jobs :
        /\ runner[j].pc = "done"
        /\ jobs[j].status = "completed"
        /\ Len(jobs[j].results) = 2
        /\ "success" \in DOMAIN jobs[j].results[1].result
        /\ ~jobs[j].results[1].result.success
        /\ "success" \in DOMAIN jobs[j].results[2].result
        /\ jobs[j].results[2].result.success

\* C5: once the invocation of the k-th tool has raised, the job has exactly
\* k-1 results, neither the k-th nor a later tool is ever launched, the run
\* only goes on to its exception handler, and it ends with the job Failed.
C5_FaultStopsRunAndFailsJob ==
    \A j \in DOMAIN jobs :
        runner[j].e = Some(WriteError) =>
            LET k == runner[j].i IN
            /\ runner[j].pc \in {"except", "done"}
            /\ Len(jobs[j].results) = k - 1
            /\ \A m \in k .. Len(jobs[j].tools) : <<j, m>> \notin launched
            /\ runner[j].pc = "done" => jobs[j].status = "failed"

\* C5 witness: the second tool of a job raised; the job is Failed with one result.
C5_Witness ==
    \E j \in DOMAIN jobs :
        /\ runner[j].e = Some(WriteError)
        /\ runner[j].i = 2
        /\ runner[j].pc = "done"
        /\ jobs[j].status = "failed"
        /\ Len(jobs[j].results) = 1

\* C6: a Failed job has a non-empty error; a job in any other status has none.
C6_ErrorIffFailed ==
    \A j \in DOMAIN jobs :
        IF jobs[j].status = "failed"
        THEN jobs[j].error # None /\ jobs[j].error[1] # ""
        ELSE jobs[j].error = None

\* C6 witness: a Failed job with its error, and the run over.
C6_Witness ==
    \E j \in DOMAIN jobs :
        /\ jobs[j].status = "failed"
        /\ jobs[j].error # None
        /\ runner[j].pc = "done"

\* The times recorded for the client of create_job, and how many of them lie
\* within the 60 seconds before now.
RecordedTimes == IF client_ip \in DOMAIN rate_limits THEN rate_limits[client_ip] ELSE << >>
InWindow == Cardinality({k \in DOMAIN RecordedTimes : RecordedTimes[k] > now - 60})

\* The request targets that pass validation and that the TargetAuthorizer
\* accepts once validated.
AuthorizedTargets ==
    {t \in RequestTargets :
        ~TargetRejected(t) /\ validate_target_authorization(validate_target(t))}

\* A create_job request whose body passed validation was served in this step.
CreateServed == response'.op = "create_job" /\ response'.code # 422

\* C7: a call made while 10 admitted calls lie within the last 60 seconds is
\* rejected and records no time; any other call is admitted and records
\* now; so a call made 61 seconds or more after every recorded admission is
\* admitted, whatever was rejected in between.
C7_RateLimitThresholdAndRecovery ==
    [][CreateServed =>
          /\ InWindow >= 10 =>
                /\ response'.code = 429
                /\ Len(rate_limits'[client_ip]) = InWindow
                /\ \A k \in DOMAIN rate_limits'[client_ip] :
                      rate_limits'[client_ip][k] \in {RecordedTimes[m] : m \in DOMAIN RecordedTimes}
          /\ InWindow < 10 =>
                /\ response'.code # 429
                /\ Len(rate_limits'[client_ip]) = InWindow + 1
                /\ rate_limits'[client_ip][InWindow + 1] = now
          /\ (\A k \in DOMAIN RecordedTimes : now >= RecordedTimes[k] + 61) =>
                response'.code # 429]_vars

\* C7 witness: 10 requests were admitted within 60 seconds, some at time 0
\* and some at time 30, and a further request at time 30 was rejected.
C7_Witness ==
    /\ response.op = "create_job"
    /\ response.code = 429
    /\ now = 30
    /\ Len(RecordedTimes) = 10
    /\ InWindow = 10
    /\ RecordedTimes[1] = 0
    /\ RecordedTimes[10] = 30

\* A create_job request that passed validation, was admitted by the rate
\* limiter and whose target is authorized was served in this step.
CreateAdmittedAndAuthorized ==
    /\ CreateServed
    /\ InWindow < 10
    /\ response'.arg.target \in AuthorizedTargets

\* C8: every admitted and authorized request, whatever its tools list, adds
\* exactly one job, Pending, without results, with the requested tools in
\* order, schedules one run for it and returns the id of the new job.
C8_AdmittedRequestCreatesJob ==
    [][CreateAdmittedAndAuthorized =>
          LET tools == response'.arg.tools
              new == Len(jobs) + 1
          IN  /\ response'.code = 200
              /\ Len(jobs') = new
              /\ SubSeq(jobs', 1, Len(jobs)) = jobs
              /\ jobs'[new].status = "pending"
              /\ jobs'[new].results = << >>
              /\ Len(jobs'[new].tools) = Len(tools)
              /\ \A k \in DOMAIN tools :
                    /\ jobs'[new].tools[k].name = tools[k].name
                    /\ jobs'[new].tools[k].config = tools[k].config
              /\ runner' = Append(runner, ScheduledRun)
              /\ response'.body = jobs'[new].id]_vars

\* C9: a request the rate limiter denies is answered 429 whatever its target;
\* one it admits for a target that is not authorized is answered 403; neither
\* adds a job, changes a job or schedules a run.
C9_RejectedRequestChangesNoJob ==
    [][CreateServed =>
          /\ InWindow >= 10 => response'.code = 429
          /\ (InWindow < 10 /\ response'.arg.target \notin AuthorizedTargets)
                => response'.code = 403
          /\ response'.code \in {429, 403} => jobs' = jobs /\ runner' = runner]_vars

\* C9 witness: a request for an authorized target was answered 429 while the
\* registry held a job.
C9_Witness ==
    /\ response.op = "create_job"
    /\ response.code = 429
    /\ response.arg.target \in AuthorizedTargets
    /\ jobs # << >>

\* C10: the result stored for a tool whose name is not in the module mapping
\* has success = false and an error naming the unknown tool, and for that
\* invocation no file was written and no process launched.
C10_UnknownToolResult ==
    \A j \in DOMAIN jobs : \A k \in DOMAIN jobs[j].results :
        jobs[j].tools[k].name \notin DOMAIN module_mapping =>
            LET r == jobs[j].results[k].result IN
            /\ "success" \in DOMAIN r
            /\ r.success = FALSE
            /\ "error" \in DOMAIN r
            /\ r.error = <<"Unknown tool: ", jobs[j].tools[k].name>>
            /\ \A f \in files : f.path # <<j, jobs[j].tools[k].name>>
            /\ <<j, k>> \notin launched

\* How many jobs of the registry were created after time c, and at c or after.
CreatedAfter(c) == Cardinality({q \in DOMAIN jobs : jobs[q].created_at > c})
CreatedNotBefore(c) == Cardinality({q \in DOMAIN jobs : jobs[q].created_at >= c})

\* The jobs of the registry were created at pairwise distinct times.
DistinctCreationTimes ==
    \A p \in DOMAIN jobs : \A q \in DOMAIN jobs :
        p # q => jobs[p].created_at # jobs[q].created_at

\* C11: a list request with offset, limit >= 0 returns total = the number of
\* jobs and, as its page, the jobs at positions offset .. offset+limit-1 of the
\* registry ordered by created_at descending: the page has that many entries
\* (as far as the registry reaches), they are different jobs of the registry,
\* and the k-th has at most offset+k-1 jobs created after it and at least
\* offset+k jobs created at its time or later.  With three jobs created at
\* distinct times, offset 0 and limit 1 return exactly the newest job.
C11_ListReturnsNewestFirstPage ==
    [][response'.op = "list_jobs" =>
          LET offset == response'.arg.offset
              limit == response'.arg.limit
              page == response'.body.jobs
              n == Len(jobs)
          IN  /\ response'.body.total = n
              /\ Len(page) = Max({0, Min({limit, n - offset})})
              /\ \A k \in DOMAIN page :
                    /\ \E q \in DOMAIN jobs : page[k] = JobStatus(jobs[q])
                    /\ CreatedAfter(page[k].created_at) <= offset + k - 1
                    /\ CreatedNotBefore(page[k].created_at) >= offset + k
              /\ \A k \in DOMAIN page : \A m \in DOMAIN page :
                    k # m => page[k].id # page[m].id
              /\ (n = 3 /\ DistinctCreationTimes /\ offset = 0 /\ limit = 1) =>
                    /\ Len(page) = 1
                    /\ CreatedAfter(page[1].created_at) = 0]_vars

\* C11 witness: three jobs created at distinct times were listed with offset
\* 0 and limit 1 and the page is the job created last.
C11_Witness ==
    /\ response.op = "list_jobs"
    /\ response.arg = [limit |-> 1, offset |-> 0]
    /\ Len(jobs) = 3
    /\ DistinctCreationTimes
    /\ Len(response.body.jobs) = 1
    /\ response.body.jobs[1].id = 3

\* The value of a decimal digit; -1 for any other character.
DigitValue(c) ==
    CASE c = "0" -> 0 [] c = "1" -> 1 [] c = "2" -> 2 [] c = "3" -> 3 [] c = "4" -> 4
      [] c = "5" -> 5 [] c = "6" -> 6 [] c = "7" -> 7 [] c = "8" -> 8 [] c = "9" -> 9
      [] OTHER -> -1

\* The target begins with 172.N. for a two-digit N from 16 to 31.
Begins172Private(t) ==
    /\ Len(t) >= 7
    /\ SubSeq(t, 1, 4) = <<"1", "7", "2", ".">>
    /\ DigitValue(t[5]) >= 0
    /\ DigitValue(t[6]) >= 0
    /\ 10 * DigitValue(t[5]) + DigitValue(t[6]) \in 16 .. 31
    /\ t[7] = "."

\* The target begins with a prefix of the allow-list as the claim names them.
BeginsWithAllowedPrefix(t) ==
    \/ StartsWith(t, <<"1", "2", "7", ".", "0", ".", "0", ".", "1">>)
    \/ StartsWith(t, <<"l", "o", "c", "a", "l", "h", "o", "s", "t">>)
    \/ StartsWith(t, <<"1", "9", "2", ".", "1", "6", "8", ".">>)
    \/ StartsWith(t, <<"1", "0", ".">>)
    \/ Begins172Private(t)

\* The targets the claim names as authorized and as not authorized.
NamedAuthorized ==
    { <<"1", "2", "7", ".", "0", ".", "0", ".", "1">>,
      <<"1", "0", ".", "0", ".", "0", ".", "5">>,
      <<"1", "9", "2", ".", "1", "6", "8", ".", "1", ".", "1">> }
NamedNotAuthorized ==
    { <<"8", ".", "8", ".", "8", ".", "8">>,
      <<"e", "v", "i", "l", ".", "e", "x", "a", "m", "p", "l", "e", ".", "c", "o", "m">>,
      << >>,
      <<" ">> }

\* C12: a call of validate_target_authorization answers true exactly when the
\* target begins with 127.0.0.1, localhost, 192.168., 10. or 172.16. to
\* 172.31.; it answers true for 127.0.0.1, 10.0.0.5 and 192.168.1.1 and false
\* for 8.8.8.8, evil.example.com, the empty and the blank target; and the
\* call changes nothing of the backend's state.
C12_AuthorizedIffAllowedPrefix ==
    [][response'.op = "validate_target_authorization" =>
          /\ response'.ret = BeginsWithAllowedPrefix(response'.arg)
          /\ response'.arg \in NamedAuthorized => response'.ret
          /\ response'.arg \in NamedNotAuthorized => ~response'.ret
          /\ UNCHANGED <<job_lock, frames, now, rate_limits, jobs, runner, files, launched>>]_vars

\* C12 witness: after a job was registered, the authorizer was asked about
\* 192.168.1.1 and answered true.
C12_Witness ==
    /\ response.op = "validate_target_authorization"
    /\ response.arg = <<"1", "9", "2", ".", "1", "6", "8", ".", "1", ".", "1">>
    /\ response.ret
    /\ jobs # << >>

\* The statuses in which a job ends.
TerminalStatuses == {"completed", "failed", "cancelled"}

\* C13: under fair scheduling of the runs, every job of the registry
\* eventually has a terminal status: none stays Pending or Running forever.
C13_EveryJobEnds ==
    \A j \in 1 .. MaxJobs :
        (j \in DOMAIN jobs) ~> (j \in DOMAIN jobs /\ jobs[j].status \in TerminalStatuses)

\* C13 witness: a run that launched two processes is over and its job is
\* Completed.
C13_Witness ==
    \E j \in DOMAIN jobs :
        /\ runner[j].pc = "done"
        /\ jobs[j].status = "completed"
        /\ {<<j, 1>>, <<j, 2>>} \subseteq launched

\* The tool invocations of job j whose process was launched and has not ended.
InFlight(j) ==
    {m \in DOMAIN jobs[j].tools :
        /\ <<j, m>> \in launched
        /\ m > Len(jobs[j].results)
        /\ runner[j].pc = "await" \/ m # runner[j].i}

\* C14: a job has at most one tool invocation in flight; and while a job has
\* one in flight, the run of any other job that is scheduled can start and
\* requests can be served.
C14_JobsRunInParallel ==
    \A a \in DOMAIN jobs :
        /\ Cardinality(InFlight(a)) <= 1
        /\ InFlight(a) # {} =>
              /\ \A b \in DOMAIN jobs : runner[b].pc = "scheduled" => ENABLED TakeUpRun(b)
              /\ ENABLED ServeRequest

C17_ToolFailuresAreResults ==
    \A j \in DOMAIN jobs :
        /\ runner[j].e \in {None, Some(MkdirError)}
        /\ jobs[j].status = "failed" => jobs[j].error = Some(MkdirError)
        /\ \A k \in DOMAIN jobs[j].results :
              LET r == jobs[j].results[k].result IN
              (jobs[j].tools[k].name \in DOMAIN module_mapping) =>
                  /\ "success" \in DOMAIN r
                  /\ "return_code" \notin DOMAIN r => (~r.success /\ r.error # "")

\* C19: a Pending job has neither started_at nor completed_at; a Running job
\* has started_at and no completed_at; a Completed, Failed or Cancelled job
\* has both.
C19_TimestampsFollowStatus ==
    \A j \in DOMAIN jobs :
        /\ jobs[j].status \in {"pending", "running"} \cup TerminalStatuses
        /\ jobs[j].status = "pending" =>
              jobs[j].started_at = None /\ jobs[j].completed_at = None
        /\ jobs[j].status = "running" =>
              jobs[j].started_at # None /\ jobs[j].completed_at = None
        /\ jobs[j].status \in TerminalStatuses =>
              jobs[j].started_at # None /\ jobs[j].completed_at # None

\* C19 witness: a job that started at time 0 was cancelled at time 61.
C19_Witness ==
    \E j \in DOMAIN jobs :
        /\ jobs[j].status = "cancelled"
        /\ jobs[j].started_at = Some(0)
        /\ jobs[j].completed_at = Some(61)

\* C20: a request answered 403 has recorded its time for the client, like
\* any admitted request, and has changed no job; and when the ten times
\* recorded within the last 60 seconds all belong to requests answered 403
\* (the registry is still empty), the next request is answered 429 whether
\* its target is authorized or not.
C20_UnauthorizedRequestsCount ==
    [][CreateServed =>
          /\ response'.code = 403 =>
                /\ rate_limits'[client_ip] =
                       Append(SelectSeq(RecordedTimes, LAMBDA t : t > now - 60), now)
                /\ jobs' = jobs
                /\ runner' = runner
          /\ (jobs = << >> /\ InWindow >= 10) => response'.code = 429]_vars

\* C20 witness: ten requests for a target that is not authorized were
\* answered 403 within a minute, no job exists, and a request for an
\* authorized target was answered 429.
C20_Witness ==
    /\ response.op = "create_job"
    /\ response.code = 429
    /\ response.arg.target \in AuthorizedTargets
    /\ jobs = << >>
    /\ Len(RecordedTimes) = 10
    /\ InWindow = 10

\* The registry after the first k assignments of the block of frame f.
RECURSIVE Applied(_, _)
Applied(f, k) == IF k = 0 THEN f.snap ELSE AfterWrite(f, k, Applied(f, k - 1))

\* The fields of a job (or of a JobStatus answer) fit its status: no
\* transition is half applied.
Whole(job) ==
    /\ job.status = "pending" => job.started_at = None /\ job.completed_at = None
    /\ job.status = "running" => job.started_at # None /\ job.completed_at = None
    /\ job.status \in TerminalStatuses => job.started_at # None /\ job.completed_at # None
    /\ job.status = "failed" => job.error # None

\* C15: at most one thread holds job_lock; every thread inside an operation
\* on the registry or on a job's fields holds it; while a thread is in its
\* block the registry differs from what it was on entry by that thread's
\* own assignments only; so whenever the lock is free every job is whole,
\* and every answer of a query shows whole jobs.
C15_RegistryAccessUnderLock ==
    /\ Cardinality(job_lock) <= 1
    /\ \A t \in Threads : frames[t] # Idle => t \in job_lock
    /\ \A t \in job_lock : jobs = Applied(frames[t], frames[t].done)
    /\ job_lock = {} => \A j \in DOMAIN jobs : Whole(jobs[j])
    /\ (response.op = "get_job_status" /\ response.code = 200) =>
          Whole(response.body)
    /\ (response.op = "list_jobs") =>
          \A k \in DOMAIN response.body.jobs : Whole(response.body.jobs[k])
    /\ (response.op = "get_job_results" /\ response.code = 200) =>
          (response.body.status = "failed" => response.body.error # None)

\* C15 witness: a handler thread is between the two assignments of cancel_job
\* (status Cancelled, completed_at unset) and holds the lock, while the run of
\* that job has a result to store and another handler thread is idle.
C15_Witness ==
    \E t \in HandlerThreads : \E j \in DOMAIN jobs :
        /\ job_lock = {t}
        /\ frames[t] # Idle
        /\ frames[t].op = "cancel_job"
        /\ frames[t].arg = j
        /\ jobs[j].status = "cancelled"
        /\ jobs[j].completed_at = None
        /\ runner[j].pc = "store"

\* How often time x is recorded in the list, and how many recorded times
\* lie in the 60 seconds that begin at x.
TimesRecorded(list, x) == Cardinality({k \in DOMAIN list : list[k] = x})
RecordedFrom(list, x) == Cardinality({k \in DOMAIN list : x <= list[k] /\ list[k] < x + 60})

\* C18: overlapping check_rate_limit calls of one client behave as if run
\* one after another: each call returns, and leaves the client's list, as the
\* whole function does on the list the call found; no 60-second window ever
\* holds more than 10 recorded times; and no step removes a time recorded
\* within the last 60 seconds.
C18_OverlappingCallsAreSerial ==
    /\ [](\A k \in DOMAIN RecordedTimes :
              RecordedFrom(RecordedTimes, RecordedTimes[k]) <= max_requests_per_minute)
    /\ [][/\ response'.op = "check_rate_limit" =>
                /\ response'.ret = check_rate_limit(response'.snap, client_ip, response'.t)
                /\ rate_limits' = RateLimitsAfter(response'.snap, client_ip, response'.t)
           /\ \A k \in DOMAIN RecordedTimes :
                RecordedTimes[k] > now - 60 =>
                    TimesRecorded(rate_limits'[client_ip], RecordedTimes[k])
                        >= TimesRecorded(RecordedTimes, RecordedTimes[k])]_vars

\* C18 witness: with 9 times recorded, one call has passed the test of line
\* 347 and is about to record its time while the request of the other
\* connection has arrived and waits.
C18_Witness ==
    \E c \in HandlerThreads : \E d \in HandlerThreads :
        /\ c # d
        /\ frames[c] # Idle
        /\ frames[c].pc = "L351"
        /\ frames[d] = Queued
        /\ Len(RecordedTimes) = 9

\* C21.  An accepted cancel neither interrupts the invocation in flight nor
\* stops the run.  (1) The cancel_job step that takes a job from Running to
\* Cancelled leaves the run where it stands, the launched processes and the
\* resource files as they are.  (2) A Cancelled job whose run stands before a
\* tool stands before the tool that follows the stored results, and the
\* invocation of that tool can be taken: no test of the status is in its way.
\* (3) A Cancelled job whose run has not ended gets to the end of its run, with
\* one result per tool of the list unless an exception was raised in the try
\* block (a fault ends the run of any job, Cancelled or not).
CancelledInRun(j) ==
    /\ j \in DOMAIN jobs
    /\ jobs[j].status = "cancelled"
    /\ runner[j].pc # "done"

RunEndedAsWritten(j) ==
    /\ j \in DOMAIN jobs
    /\ runner[j].pc = "done"
    /\ \/ Len(jobs[j].results) = Len(jobs[j].tools)
       \/ runner[j].e # None

====
